---- MODULE Spec2Model ----
(***************************************************************************)
(* A model of minos/tools/pygame_client.py: main(), interactive_loop(),    *)
(* the scripted key generator generate_key_press_random() and the display  *)
(* helpers that decide what reaches the video writer.                      *)
(*                                                                         *)
(* Positions are triples <<x, y, z>> (Python index i is TLA+ index i+1).   *)
(* Angles are in degrees.  A key vector (a 323-tuple of 0/1 in the code)   *)
(* is the set of indices that are set.  Every action records in `calls`    *)
(* the external calls it made, in order.                                   *)
(***************************************************************************)
EXTENDS Integers, Sequences, FiniteSets, TLC

(* ------------------------------------------------------------------ *)
(* Bounds of the model                                                 *)
(* ------------------------------------------------------------------ *)
MaxFrames == 3

(* ------------------------------------------------------------------ *)
(* Key codes (pygame 1.x, a 323-entry key vector)                      *)
(* ------------------------------------------------------------------ *)
NumKeys == 323
K_q == 113
K_x == 120
K_c == 99
K_o == 111
K_n == 110
K_r == 114
K_p == 112
K_e == 101
K_w == 119
K_s == 115
K_a == 97
K_d == 100
K_LEFT == 276
K_RIGHT == 275
K_UP == 273
K_DOWN == 274

\* Python's None where an action code is expected (reverse_action's fallthrough)
NoneAction == -1

REPLAY_MODES == <<"actions", "positions">>

(* ------------------------------------------------------------------ *)
(* get_angle_rad, on axis-aligned orientations, in degrees             *)
(* ------------------------------------------------------------------ *)
\* math.atan2(y, x) in degrees on the axis directions
Atan2Deg(y, x) ==
    IF x > 0 /\ y = 0 THEN 0
    ELSE IF x < 0 /\ y = 0 THEN 180
    ELSE IF x = 0 /\ y > 0 THEN 90
    ELSE IF x = 0 /\ y < 0 THEN -90
    ELSE 0

Abs(x) == IF x < 0 THEN -x ELSE x

get_angle_rad(x_vector, y_vector) ==
    IF Abs(x_vector) > 0
    THEN LET angle == Atan2Deg(y_vector, x_vector)
         IN  IF angle > 0 THEN angle - 180 ELSE angle + 180
    ELSE 0

(* ------------------------------------------------------------------ *)
(* The scripted key generator                                          *)
(* ------------------------------------------------------------------ *)
Min(a, b) == IF a < b THEN a ELSE b
Max(a, b) == IF a > b THEN a ELSE b

is_within_region(position, region_bounds) ==
    /\ position[1] >= Min(region_bounds.start_x, region_bounds.end_x)
    /\ position[3] >= Min(region_bounds.start_z, region_bounds.end_z)
    /\ position[1] <= Max(region_bounds.start_x, region_bounds.end_x)
    /\ position[3] <= Max(region_bounds.start_z, region_bounds.end_z)

ActionList == <<119, 115, 97, 100, 276, 275>>

\* get_random_action drawing from all six actions whatever `rotation` is
get_random_action_IgnoresRotation(rotation) ==
    { ActionList[i + 1] : i \in 0..5 }

\* the values get_random_action can return: actions[randint(0,5)] or actions[randint(0,3)]
get_random_action(rotation) ==
    { ActionList[i + 1] : i \in (IF rotation THEN 0..5 ELSE 0..3) }

reverse_action(previous_action) ==
    IF previous_action = 119 THEN 115
    ELSE IF previous_action = 115 THEN 119
    ELSE IF previous_action = 97 THEN 100
    ELSE IF previous_action = 100 THEN 97
    ELSE IF previous_action = 276 THEN 275
    ELSE IF previous_action = 275 THEN 276
    ELSE NoneAction

\* the module-level globals before the first call
InitGlobals ==
    [previous_action |-> 0, next_action |-> 0, rotation_counter |-> 0,
     reverse_action_taken |-> FALSE]

\* room_bounds is a sequence: <<>> for the empty dict, <<b>> for a dict b
Outside(confine_to_room, current_room, room_bounds, current_position) ==
    \/ (confine_to_room # "" /\ current_room # confine_to_room)
    \/ /\ Len(room_bounds) > 0
       /\ current_position # <<0, 0, 0>>
       /\ ~is_within_region(current_position, room_bounds[1])

\* generate_key_press_random reversing on every call that finds the agent
\* outside
generate_key_press_random_ReversesEveryCall(g, has_collided, rotation, confine_to_room, current_room, room_bounds, current_position, rnd) ==
    LET prev == g.next_action
        out  == Outside(confine_to_room, current_room, room_bounds, current_position)
        nxt  == IF out THEN reverse_action(prev)
                ELSE IF has_collided THEN rnd
                ELSE IF prev = 0 THEN 119
                ELSE IF (prev = 276 \/ prev = 275) /\ g.rotation_counter % 2 = 0
                     THEN rnd
                     ELSE prev
        cnt0 == IF /\ ~out /\ ~has_collided /\ prev # 0
                   /\ (prev = 276 \/ prev = 275) /\ g.rotation_counter % 2 = 0
                THEN 0 ELSE g.rotation_counter
        cnt  == IF nxt = 275 \/ nxt = 276 THEN cnt0 + 1 ELSE cnt0
    IN  [previous_action |-> prev, next_action |-> nxt, rotation_counter |-> cnt,
         reverse_action_taken |-> out]

\* generate_key_press_random continuing a rotation whatever rotation_counter is
generate_key_press_random_KeepsRotating(g, has_collided, rotation, confine_to_room, current_room, room_bounds, current_position, rnd) ==
    LET prev == g.next_action
        out  == Outside(confine_to_room, current_room, room_bounds, current_position)
        nxt  == IF out
                THEN IF ~g.reverse_action_taken THEN reverse_action(prev) ELSE prev
                ELSE IF has_collided THEN rnd
                ELSE IF prev = 0 THEN 119
                ELSE prev
        cnt  == IF nxt = 275 \/ nxt = 276 THEN g.rotation_counter + 1
                ELSE g.rotation_counter
    IN  [previous_action |-> prev, next_action |-> nxt, rotation_counter |-> cnt,
         reverse_action_taken |-> out]

\* The globals after one call; rnd is the value get_random_action returns if
\* it is called.
generate_key_press_random(g, has_collided, rotation, confine_to_room, current_room, room_bounds, current_position, rnd) ==
    LET prev == g.next_action
        out  == Outside(confine_to_room, current_room, room_bounds, current_position)
        nxt  == IF out
                THEN IF ~g.reverse_action_taken THEN reverse_action(prev) ELSE prev
                ELSE IF has_collided THEN rnd
                ELSE IF prev = 0 THEN 119
                ELSE IF (prev = 276 \/ prev = 275) /\ g.rotation_counter % 2 = 0
                     THEN rnd
                     ELSE prev
        cnt0 == IF /\ ~out /\ ~has_collided /\ prev # 0
                   /\ (prev = 276 \/ prev = 275) /\ g.rotation_counter % 2 = 0
                THEN 0 ELSE g.rotation_counter
        cnt  == IF nxt = 275 \/ nxt = 276 THEN cnt0 + 1 ELSE cnt0
    IN  [previous_action |-> prev, next_action |-> nxt, rotation_counter |-> cnt,
         reverse_action_taken |-> out]

\* whether a call reaches get_random_action: lines 399-401 and 407-409
DrawsRandom(g, has_collided, confine_to_room, current_room, room_bounds, current_position) ==
    /\ ~Outside(confine_to_room, current_room, room_bounds, current_position)
    /\ \/ has_collided
       \/ /\ g.next_action # 0
          /\ g.next_action \in {276, 275}
          /\ g.rotation_counter % 2 = 0

\* empty_keys = np.zeros(323); empty_keys[next_action] = 1: indexing with None
\* is numpy.newaxis, and the assignment then sets every entry
KeyVectorOf(next_action) ==
    IF next_action = NoneAction THEN 0..(NumKeys - 1) ELSE {next_action}


(* ------------------------------------------------------------------ *)
(* positions.csv                                                       *)
(* ------------------------------------------------------------------ *)
\* A cell group that holds no value (pandas NaN / an absent column).  A
\* position is stored as a triple, an angle as a one-element sequence.
NaN == <<>>

SceneIds == <<"s1", "s2">>
Rooms == {"r1", "r2"}

RowA == [scene_id |-> "s1", room_id |-> "r1", sp |-> <<1, 0, 1>>, sa |-> <<0>>,
         ep |-> <<3, 0, 3>>, ea |-> <<0>>]
RowB == [scene_id |-> "s1", room_id |-> "r2", sp |-> <<3, 0, 3>>, sa |-> <<180>>,
         ep |-> <<1, 0, 1>>, ea |-> <<0>>]

NoFile == [exists |-> FALSE, rows |-> <<>>]
InitFiles == { NoFile,
               [exists |-> TRUE, rows |-> <<RowA>>],
               [exists |-> TRUE, rows |-> <<RowA, RowB>>] }

\* df.loc[(df['scene_id']==scene) & (df['room_id']==room)]
Matching(rows, scene, room) ==
    { i \in 1..Len(rows) : rows[i].scene_id = scene /\ rows[i].room_id = room }

\* the X branch: lines 581-613
WriteStart(f, scene, room, pos, ang) ==
    IF f.exists
    THEN IF Matching(f.rows, scene, room) # {}
         THEN [f EXCEPT !.rows =
                 [i \in 1..Len(f.rows) |->
                    IF i \in Matching(f.rows, scene, room)
                    THEN [f.rows[i] EXCEPT !.sp = pos, !.sa = <<ang>>]
                    ELSE f.rows[i]]]
         ELSE [f EXCEPT !.rows =
                 Append(f.rows, [scene_id |-> scene, room_id |-> room, sp |-> pos,
                                 sa |-> <<ang>>, ep |-> NaN, ea |-> NaN])]
    ELSE [exists |-> TRUE,
          rows |-> <<[scene_id |-> scene, room_id |-> room, sp |-> pos,
                      sa |-> <<ang>>, ep |-> NaN, ea |-> NaN]>>]

\* the C branch: lines 617-649.  With a file that has no matching row the
\* appended row carries start_position_* / start_angle (lines 627-634).
WriteEnd(f, scene, room, pos, ang) ==
    IF f.exists
    THEN IF Matching(f.rows, scene, room) # {}
         THEN [f EXCEPT !.rows =
                 [i \in 1..Len(f.rows) |->
                    IF i \in Matching(f.rows, scene, room)
                    THEN [f.rows[i] EXCEPT !.ep = pos, !.ea = <<ang>>]
                    ELSE f.rows[i]]]
         ELSE [f EXCEPT !.rows =
                 Append(f.rows, [scene_id |-> scene, room_id |-> room, sp |-> pos,
                                 sa |-> <<ang>>, ep |-> NaN, ea |-> NaN])]
    ELSE [exists |-> TRUE,
          rows |-> <<[scene_id |-> scene, room_id |-> room, sp |-> NaN,
                      sa |-> NaN, ep |-> pos, ea |-> <<ang>>]>>]

(* ------------------------------------------------------------------ *)
(* Display                                                             *)
(* ------------------------------------------------------------------ *)
all_camera_observations ==
    <<"color", "depth", "normal", "objectId", "objectType", "roomId", "roomType">>

\* the loop of display_response over camera_outputs (in insertion order): the
\* calls made for the outputs from index i on
RECURSIVE DisplayLoop(_, _, _, _, _)
DisplayLoop(i, sensor_data, camera_outputs, write_video, video_writer) ==
    IF i > Len(all_camera_observations) THEN <<>>
    ELSE LET obs  == all_camera_observations[i]
             rest == DisplayLoop(i + 1, sensor_data, camera_outputs, write_video,
                                 video_writer)
         IN  IF obs \notin camera_outputs \/ obs \notin sensor_data THEN rest
             ELSE <<<<"blit", obs>>>>
                  \o (IF obs = "color" /\ write_video /\ video_writer
                      THEN <<<<"add_frame", obs>>>> ELSE <<>>)
                  \o rest

display_response(sensor_data, camera_outputs, print_observation, write_video, video_writer) ==
    <<<<"display_response", write_video>>>>
    \o (IF print_observation THEN <<<<"print_observation", "">>>> ELSE <<>>)
    \o DisplayLoop(1, sensor_data, camera_outputs, write_video, video_writer)

\* display_episode_info with the goal observation written to the video
display_episode_info_WritesVideo(episode_info, goal_outputs, show_goals, video_writer) ==
    IF episode_info.displayed < 1
    THEN <<<<"print_episode_info", "">>>>
         \o (IF show_goals /\ Len(episode_info.goalObservations) > 0
             THEN display_response(episode_info.goalObservations[1], goal_outputs,
                                   FALSE, TRUE, video_writer)
             ELSE <<>>)
    ELSE <<>>

\* display_episode_info: the calls it makes; episode_info.displayed becomes 1
display_episode_info(episode_info, goal_outputs, show_goals, video_writer) ==
    IF episode_info.displayed < 1
    THEN <<<<"print_episode_info", "">>>>
         \o (IF show_goals /\ Len(episode_info.goalObservations) > 0
             THEN display_response(episode_info.goalObservations[1], goal_outputs,
                                   FALSE, FALSE, video_writer)
             ELSE <<>>)
    ELSE <<>>


(* ------------------------------------------------------------------ *)
(* State                                                               *)
(* ------------------------------------------------------------------ *)
VARIABLES
    pc,                 \* position of main() / interactive_loop()
    cfg,                \* what main() set up from the arguments
    g,                  \* globals of generate_key_press_random
    sim_running,        \* sim.running
    episode_info,       \* sim.episode_info
    positions_df,       \* the table read at line 538
    row_index,          \* the row the for loop is at (1-based)
    current_room,
    file,               \* positions.csv
    position_internal,
    angle_internal,
    has_collided,
    actions,            \* the list last built for sim.step
    bound,              \* which of angle_internal / actions have been assigned
    prev_key,
    replay_auto,
    replay_mode,
    replay_mode_index,
    scene_index,
    num_frames,
    keys,               \* key vector of the latest frame
    calls,              \* the external calls of the latest action, in order
    kill_calls,         \* number of sim.kill calls
    close_calls,        \* number of VIDEO_WRITER.close calls
    q_seen,             \* a frame's key vector has had Q set
    quit_seen           \* a window QUIT event has set sim.running to False

vars == <<pc, cfg, g, sim_running, episode_info, positions_df, row_index,
          current_room, file, position_internal, angle_internal, has_collided,
          actions, bound, prev_key, replay_auto, replay_mode, replay_mode_index,
          scene_index, num_frames, keys, calls, kill_calls, close_calls,
          q_seen, quit_seen>>

\* the locals of interactive_loop that only a frame changes
loop_locals == <<position_internal, angle_internal, has_collided, actions, bound,
                 prev_key, replay_auto, replay_mode, replay_mode_index,
                 scene_index, num_frames, keys>>

IndexOf(seq, x) == CHOOSE i \in 1..Len(seq) : seq[i] = x

\* sim.start() / sim.reset() results: a fresh dict, not yet displayed, with
\* one goal observation carrying the simulator's sensors
EpisodeInfo(src) ==
    [src |-> src, displayed |-> 0, goalObservations |-> <<cfg.sensors>>]

\* camera_outputs['curr'] and camera_outputs['goal'] (lines 450-460)
CameraOutputsCurr == cfg.observations
CameraOutputsGoal == IF cfg.show_goals THEN cfg.observations ELSE {}

(* ------------------------------------------------------------------ *)
(* The key branches of a frame: lines 651-740                          *)
(* ------------------------------------------------------------------ *)
\* prev_key = c if prev_key is not c else ''
Toggle(pk, c) == IF pk # c THEN c ELSE ""

\* what the state-set file yields at get_next_state
NextState == [scene_id |-> "s2", position |-> <<2, 0, 2>>, angle |-> 90]

\* the records an action trace can hold; `actions` is rec['actions'] as
\* split at '+'
TraceRecords ==
    { [actions |-> <<"forwards">>, pos |-> <<2, 0, 2>>, rotation |-> 90],
      [actions |-> <<"reset", "turnLeft">>, pos |-> <<5, 0, 5>>, rotation |-> 0] }

\* DropReset keeping every name
DropReset_KeepsReset(names) == names

\* lines 707-712: the names of rec['actions'] that become actions
RECURSIVE DropReset(_)
DropReset(names) ==
    IF names = <<>> THEN <<>>
    ELSE IF Head(names) = "reset" THEN DropReset(Tail(names))
    ELSE <<Head(names)>> \o DropReset(Tail(names))

\* ManualAction with the arrow keys tested before S
ManualAction_ArrowsFirst(k) ==
    IF K_w \in k THEN "forwards"
    ELSE IF K_LEFT \in k THEN "turnLeft"
    ELSE IF K_RIGHT \in k THEN "turnRight"
    ELSE IF K_s \in k THEN "backwards"
    ELSE IF K_a \in k THEN "strafeLeft"
    ELSE IF K_d \in k THEN "strafeRight"
    ELSE IF K_UP \in k THEN "lookUp"
    ELSE IF K_DOWN \in k THEN "lookDown"
    ELSE "idle"

\* lines 716-740
ManualAction(k) ==
    IF K_w \in k THEN "forwards"
    ELSE IF K_s \in k THEN "backwards"
    ELSE IF K_LEFT \in k THEN "turnLeft"
    ELSE IF K_RIGHT \in k THEN "turnRight"
    ELSE IF K_a \in k THEN "strafeLeft"
    ELSE IF K_d \in k THEN "strafeRight"
    ELSE IF K_UP \in k THEN "lookUp"
    ELSE IF K_DOWN \in k THEN "lookDown"
    ELSE "idle"

Unchanged ==
    [prev_key |-> prev_key, scene_index |-> scene_index,
     episode_info |-> episode_info, actions |-> actions, bound |-> bound,
     replay_auto |-> replay_auto, replay_mode_index |-> replay_mode_index,
     replay_mode |-> replay_mode, print |-> FALSE, calls |-> <<>>]

\* BranchN with sim.start called before sim.set_scene
BranchN_StartsBeforeSetScene(st) ==
    LET pk == Toggle(prev_key, "n")
    IN  IF cfg.has_state_set /\ pk = "n"
        THEN [Unchanged EXCEPT
                !.prev_key = pk,
                !.episode_info = EpisodeInfo("scene"),
                !.calls = <<<<"get_next_state", st>>>>
                          \o (IF st = <<>> THEN <<<<"get_next_state", <<NextState>>>>>>
                              ELSE <<>>)
                          \o <<<<"start", "">>,
                               <<"move_to", <<NextState.position, NextState.angle>>>>,
                               <<"set_scene", NextState.scene_id>>>>]
        ELSE IF pk = "n"
        THEN LET si == (scene_index + 1) % Len(SceneIds)
             IN  [Unchanged EXCEPT
                    !.prev_key = pk,
                    !.scene_index = si,
                    !.episode_info = EpisodeInfo("scene"),
                    !.calls = <<<<"start", "">>, <<"set_scene", SceneIds[si + 1]>>>>]
        ELSE [Unchanged EXCEPT !.prev_key = pk]

\* lines 653-671; st is what the first get_next_state returns: <<>> or <<state>>
\* (each get_next_state call is logged with what it returned)
BranchN(st) ==
    LET pk == Toggle(prev_key, "n")
    IN  IF cfg.has_state_set /\ pk = "n"
        THEN [Unchanged EXCEPT
                !.prev_key = pk,
                !.episode_info = EpisodeInfo("scene"),
                !.calls = <<<<"get_next_state", st>>>>
                          \o (IF st = <<>> THEN <<<<"get_next_state", <<NextState>>>>>>
                              ELSE <<>>)
                          \o <<<<"set_scene", NextState.scene_id>>,
                               <<"move_to", <<NextState.position, NextState.angle>>>>,
                               <<"start", "">>>>]
        ELSE IF pk = "n"
        THEN LET si == (scene_index + 1) % Len(SceneIds)
             IN  [Unchanged EXCEPT
                    !.prev_key = pk,
                    !.scene_index = si,
                    !.episode_info = EpisodeInfo("scene"),
                    !.calls = <<<<"set_scene", SceneIds[si + 1]>>, <<"start", "">>>>]
        ELSE [Unchanged EXCEPT !.prev_key = pk]

\* lines 672-675
BranchR ==
    LET pk == Toggle(prev_key, "r")
    IN  IF pk = "r"
        THEN [Unchanged EXCEPT !.prev_key = pk,
                               !.episode_info = EpisodeInfo("reset"),
                               !.calls = <<<<"reset", "">>>>]
        ELSE [Unchanged EXCEPT !.prev_key = pk]

\* lines 680-714; rec is what next_action_record returns: <<>> or <<record>>
\* (the call is logged with what it returned)
BranchReplay(k, rec) ==
    LET anyKeys == k # {}
        pk   == IF K_p \in k THEN Toggle(prev_key, "p")
                ELSE IF K_e \in k THEN Toggle(prev_key, "e")
                ELSE prev_key
        auto == IF K_p \in k /\ pk = "p" THEN ~replay_auto ELSE replay_auto
        eHit == K_p \notin k /\ K_e \in k /\ pk = "e"
        idx  == IF eHit THEN (replay_mode_index + 1) % Len(REPLAY_MODES)
                ELSE replay_mode_index
        mode == IF eHit THEN REPLAY_MODES[idx + 1] ELSE replay_mode
        unprocessed_keypressed ==
                IF (K_p \in k /\ pk = "p") \/ eHit THEN FALSE ELSE anyKeys
        base == [Unchanged EXCEPT !.prev_key = pk, !.replay_auto = auto,
                                  !.replay_mode_index = idx, !.replay_mode = mode,
                                  !.actions = <<>>,
                                  !.bound = bound \cup {"actions"}]
    IN  IF auto \/ unprocessed_keypressed
        THEN IF rec = <<>>
             THEN [base EXCEPT
                     !.episode_info = EpisodeInfo("replay"),
                     !.calls = <<<<"next_action_record", rec>>, <<"next_trace", "">>,
                                 <<"configure", "">>, <<"start", "">>>>]
             ELSE IF mode = "actions"
             THEN [base EXCEPT
                     !.actions = DropReset(rec[1].actions),
                     !.calls = <<<<"next_action_record", rec>>>>]
             ELSE IF mode = "positions"
             THEN [base EXCEPT
                     !.calls = <<<<"next_action_record", rec>>,
                                 <<"move_to", <<rec[1].pos, rec[1].rotation>>>>>>]
             ELSE [base EXCEPT !.calls = <<<<"next_action_record", rec>>>>]
        ELSE base

\* the whole if/elif chain of lines 651-740
KeyBranch(k, rec, st) ==
    IF K_o \in k THEN [Unchanged EXCEPT !.print = TRUE]
    ELSE IF K_n \in k THEN BranchN(st)
    ELSE IF K_r \in k THEN BranchR
    ELSE IF cfg.replay THEN BranchReplay(k, rec)
    ELSE [Unchanged EXCEPT !.actions = <<ManualAction(k)>>,
                           !.bound = bound \cup {"actions"}]


(* ------------------------------------------------------------------ *)
(* One iteration of the frame loop: lines 561-783                      *)
(* ------------------------------------------------------------------ *)
\* what sim.step can report: the agent inside the first row's rectangle and
\* room, colliding there, outside the rectangle, or in another room
Inside == [position |-> <<2, 0, 2>>, orientation |-> <<0, 0, 1>>]
Beyond == [position |-> <<5, 0, 5>>, orientation |-> <<1, 0, 0>>]

Responses ==
    { [room |-> "r1", agent_state |-> Inside, collision |-> FALSE],
      [room |-> "r1", agent_state |-> Inside, collision |-> TRUE],
      [room |-> "r1", agent_state |-> Beyond, collision |-> FALSE],
      [room |-> "r2", agent_state |-> Inside, collision |-> FALSE] }

DefaultResponse == [room |-> "r1", agent_state |-> Inside, collision |-> FALSE]

\* the values of the variables a frame can change
Cur ==
    [pc |-> pc, g |-> g, sim_running |-> sim_running,
     episode_info |-> episode_info, row_index |-> row_index,
     current_room |-> current_room, file |-> file,
     position_internal |-> position_internal, angle_internal |-> angle_internal,
     has_collided |-> has_collided, actions |-> actions, bound |-> bound,
     prev_key |-> prev_key, replay_auto |-> replay_auto,
     replay_mode |-> replay_mode, replay_mode_index |-> replay_mode_index,
     scene_index |-> scene_index, num_frames |-> num_frames, keys |-> keys,
     calls |-> calls, q_seen |-> q_seen, quit_seen |-> quit_seen]

\* CollisionOf with the flag of the response dropped
CollisionOf_Dropped(observation) == FALSE

\* line 760
CollisionOf(observation) == observation.collision

\* line 759
RoomOf(observation) == observation.room

\* The state after one iteration.  k is the key vector of the frame, gnew the
\* generator's globals after it, keyCall the call that produced k (with the
\* has_collided it was given); in is what the environment does during the
\* frame.  A response that sim.step returns is logged after the step call.
FrameResult(k, gnew, keyCall, in) ==
    LET Break(s) == [s EXCEPT !.pc = "for", !.row_index = row_index + 1]
        Raise(s) == [s EXCEPT !.pc = "main_except"]
        \* 562-564
        s0 == [Cur EXCEPT !.sim_running = IF in.quitEv THEN FALSE ELSE @,
                          !.quit_seen = @ \/ in.quitEv,
                          !.calls = <<>>]
        \* 572
        s1 == [s0 EXCEPT !.g = gnew, !.keys = k, !.q_seen = @ \/ (K_q \in k),
                         !.calls = <<keyCall>>]
        angleBound == "angle_internal" \in bound
        scene0 == SceneIds[1]
        \* 579-613
        file1 == IF K_x \in k
                 THEN WriteStart(file, scene0, current_room, position_internal,
                                 angle_internal)
                 ELSE file
        \* 615-649
        file2 == IF K_c \in k
                 THEN WriteEnd(file1, scene0, current_room, position_internal,
                               angle_internal)
                 ELSE file1
        \* 651-740
        b  == KeyBranch(k, in.rec, in.st)
        s2 == [s1 EXCEPT !.file = file2,
                         !.prev_key = b.prev_key,
                         !.scene_index = b.scene_index,
                         !.episode_info = b.episode_info,
                         !.actions = b.actions,
                         !.bound = b.bound,
                         !.replay_auto = b.replay_auto,
                         !.replay_mode_index = b.replay_mode_index,
                         !.replay_mode = b.replay_mode,
                         !.calls = @ \o b.calls]
        \* 743
        s3 == [s2 EXCEPT !.calls = @ \o <<<<"step", b.actions>>>>]
        \* 747-783
        r  == in.resp
        s4 == [s3 EXCEPT
                 !.episode_info = [@ EXCEPT !.displayed = IF @ < 1 THEN @ + 1 ELSE @],
                 !.position_internal = r.agent_state.position,
                 !.angle_internal = get_angle_rad(r.agent_state.orientation[3],
                                                  r.agent_state.orientation[1]),
                 !.bound = @ \cup {"angle_internal"},
                 !.current_room = RoomOf(r),
                 !.has_collided = CollisionOf(r),
                 !.num_frames = @ + 1,
                 !.calls = @ \o <<<<"response", r>>>>
                             \o display_episode_info(b.episode_info, CameraOutputsGoal,
                                                     cfg.show_goals, cfg.video_writer)
                             \o display_response(cfg.sensors, CameraOutputsCurr,
                                                 b.print, TRUE, cfg.video_writer)
                             \o <<<<"flip", "">>, <<"tick", "">>>>]
    IN  IF in.timedOut THEN Break(s0)                         \* 566-568
        ELSE IF K_q \in k THEN Break(s1)                      \* 575-576
        ELSE IF (K_x \in k \/ K_c \in k) /\ ~angleBound
             THEN Raise(s1)                                   \* angle_internal unassigned
        ELSE IF "actions" \notin b.bound THEN Raise(s2)       \* actions unassigned
        ELSE IF in.stepOut = "raise" THEN Raise(s3)
        ELSE IF in.stepOut = "none" THEN Break(s3)            \* 744-745
        ELSE s4

\* what the environment can do during a frame
RecOutcomes == IF cfg.replay THEN {<<>>} \cup { <<r>> : r \in TraceRecords } ELSE {<<>>}
StOutcomes == IF cfg.has_state_set THEN {<<>>, <<NextState>>} ELSE {<<>>}

FrameInputs ==
    [quitEv : {FALSE}, timedOut : {TRUE}, stepOut : {"none"},
     resp : {DefaultResponse}, rec : {<<>>}, st : {<<>>}]
    \cup
    [quitEv : {FALSE}, timedOut : {FALSE}, stepOut : {"none", "raise"},
     resp : {DefaultResponse}, rec : RecOutcomes, st : StOutcomes]
    \cup
    [quitEv : {FALSE}, timedOut : {FALSE}, stepOut : {"resp"},
     resp : Responses, rec : RecOutcomes, st : StOutcomes]
    \cup
    [quitEv : {TRUE}, timedOut : BOOLEAN, stepOut : {"resp", "none"},
     resp : {DefaultResponse}, rec : {<<>>}, st : {<<>>}]

ApplyFrame(s) ==
    /\ pc' = s.pc
    /\ g' = s.g
    /\ sim_running' = s.sim_running
    /\ episode_info' = s.episode_info
    /\ row_index' = s.row_index
    /\ current_room' = s.current_room
    /\ file' = s.file
    /\ position_internal' = s.position_internal
    /\ angle_internal' = s.angle_internal
    /\ has_collided' = s.has_collided
    /\ actions' = s.actions
    /\ bound' = s.bound
    /\ prev_key' = s.prev_key
    /\ replay_auto' = s.replay_auto
    /\ replay_mode' = s.replay_mode
    /\ replay_mode_index' = s.replay_mode_index
    /\ scene_index' = s.scene_index
    /\ num_frames' = s.num_frames
    /\ keys' = s.keys
    /\ calls' = s.calls
    /\ q_seen' = s.q_seen
    /\ quit_seen' = s.quit_seen
    /\ UNCHANGED <<cfg, positions_df, kill_calls, close_calls>>

\* line 571 (computed, and not what line 572 passes)
RoomBounds(start_position, end_position) ==
    [start_x |-> start_position[1], start_y |-> start_position[2],
     start_z |-> start_position[3], end_x |-> end_position[1],
     end_y |-> end_position[2], end_z |-> end_position[3]]

\* The frame as the code has it: the key vector comes from
\* generate_key_press_random (line 572).
Frame ==
    /\ pc = "while"
    /\ sim_running
    /\ \E in \in FrameInputs :
         /\ num_frames < MaxFrames \/ in.timedOut
         /\ \E rnd \in get_random_action(FALSE) :
              LET gnew == generate_key_press_random(g, has_collided, FALSE,
                              current_room, current_room, <<>>, position_internal, rnd)
              IN  ApplyFrame(FrameResult(KeyVectorOf(gnew.next_action), gnew,
                                         <<"generate_key_press_random", has_collided>>,
                                         in))

\* The key vectors a keyboard can deliver (line 570): no key, single keys and
\* some chords.  In replay mode every key other than Q, O, N, R, P, E only
\* counts as "a key is pressed" (line 681), so W stands for them; outside
\* replay mode P and E are unbound, so E stands for both.
ManualKeyVectors ==
    { {}, {K_q}, {K_x}, {K_c}, {K_o}, {K_n}, {K_r}, {K_e}, {K_w}, {K_s}, {K_LEFT},
      {K_x, K_c}, {K_o, K_n}, {K_n, K_r}, {K_r, K_w} }
ReplayKeyVectors ==
    { {}, {K_q}, {K_o}, {K_n}, {K_r}, {K_p}, {K_e}, {K_w}, {K_p, K_e}, {K_p, K_w} }
KeyVectors == IF cfg.replay THEN ReplayKeyVectors ELSE ManualKeyVectors

\* The frame for an arbitrary key vector: lines 574-783 with keys read from
\* the keyboard (line 570) instead of generated.
FrameKeys ==
    /\ pc = "while"
    /\ sim_running
    /\ \E in \in FrameInputs :
         /\ num_frames < MaxFrames \/ in.timedOut
         /\ \E k \in KeyVectors :
              ApplyFrame(FrameResult(k, g, <<"get_pressed", "">>, in))


(* ------------------------------------------------------------------ *)
(* main() and the row loop                                             *)
(* ------------------------------------------------------------------ *)
\* The argument sets main() can be started with.  --state_set_file, --replay,
\* --replay_mode and --show_goals are mutually exclusive (lines 803-814).
ArgModes ==
    { [replay |-> FALSE, replay_mode |-> "positions", has_state_set |-> FALSE,
       show_goals |-> FALSE],
      [replay |-> FALSE, replay_mode |-> "positions", has_state_set |-> TRUE,
       show_goals |-> FALSE],
      [replay |-> TRUE, replay_mode |-> "positions", has_state_set |-> FALSE,
       show_goals |-> FALSE],
      [replay |-> FALSE, replay_mode |-> "actions", has_state_set |-> FALSE,
       show_goals |-> FALSE],
      [replay |-> FALSE, replay_mode |-> "positions", has_state_set |-> FALSE,
       show_goals |-> TRUE] }

\* displayed camera observations and the sensors the simulator delivers:
\* color displayed and delivered, delivered but not displayed, displayed but
\* not delivered
SensorSetups ==
    { [observations |-> {"color", "depth"}, sensors |-> {"color", "depth"}],
      [observations |-> {"depth"}, sensors |-> {"color", "depth"}],
      [observations |-> {"color", "depth"}, sensors |-> {"depth"}] }

MakeConfig(m, o, vw) ==
    [replay |-> m.replay, replay_mode |-> m.replay_mode,
     has_state_set |-> m.has_state_set, show_goals |-> m.show_goals,
     observations |-> o.observations, sensors |-> o.sensors,
     video_writer |-> vw]

PlainModes ==
    { a \in ArgModes : ~a.replay /\ ~a.has_state_set /\ a.replay_mode = "positions" }

\* with a video writer (--save_video): every argument set with color displayed
\* and delivered, and the other sensor set-ups with and without goals shown;
\* without a video writer: color displayed and delivered, goals shown or not
Configs ==
    { MakeConfig(m, o, TRUE) : m \in PlainModes, o \in SensorSetups }
    \cup
    { MakeConfig(m, o, TRUE) :
        m \in ArgModes, o \in { u \in SensorSetups : u.observations = u.sensors } }
    \cup
    { MakeConfig(m, o, FALSE) :
        m \in PlainModes, o \in { u \in SensorSetups : u.observations = u.sensors } }

\* the state when main() reaches its try block (line 839), with the locals
\* of interactive_loop at their initial values (lines 510-534)
Init ==
    /\ pc = "main_try"
    /\ cfg \in Configs
    /\ file \in InitFiles
    /\ g = InitGlobals
    /\ sim_running = FALSE
    /\ episode_info = [src |-> "none", displayed |-> 0, goalObservations |-> <<>>]
    /\ positions_df = <<>>
    /\ row_index = 1
    /\ current_room = ""
    /\ position_internal = <<0, 0, 0>>
    /\ angle_internal = 0
    /\ has_collided = FALSE
    /\ actions = <<>>
    /\ bound = {}
    /\ prev_key = ""
    /\ replay_auto = FALSE
    /\ replay_mode = cfg.replay_mode
    /\ replay_mode_index = IndexOf(REPLAY_MODES, cfg.replay_mode) - 1
    /\ scene_index = 0
    /\ num_frames = 0
    /\ keys = {}
    /\ calls = <<>>
    /\ kill_calls = 0
    /\ close_calls = 0
    /\ q_seen = FALSE
    /\ quit_seen = FALSE

\* lines 839-846: sim.start() returns episode info, returns a falsy value, or raises
MainStart ==
    /\ pc = "main_try"
    /\ \E outcome \in {"ok", "falsy", "raise"} :
         /\ pc' = CASE outcome = "ok" -> "loop_init"
                    [] outcome = "falsy" -> "main_finish"
                    [] outcome = "raise" -> "main_except"
         /\ episode_info' = IF outcome = "ok" THEN EpisodeInfo("start") ELSE episode_info
         /\ sim_running' = (outcome = "ok")
    /\ calls' = <<<<"start", "">>>>
    /\ UNCHANGED <<cfg, g, positions_df, row_index, current_room, file, loop_locals,
                   kill_calls, close_calls, q_seen, quit_seen>>

\* lines 421-538: set-up of interactive_loop; pd.read_csv raises when
\* positions.csv does not exist
LoopInit ==
    /\ pc = "loop_init"
    /\ IF file.exists
       THEN /\ positions_df' = file.rows
            /\ pc' = "for"
       ELSE /\ positions_df' = positions_df
            /\ pc' = "main_except"
    /\ row_index' = 1
    /\ calls' = <<<<"pygame.init", "">>, <<"read_csv", "">>>>
    /\ UNCHANGED <<cfg, g, sim_running, episode_info, current_room, file, loop_locals,
                   kill_calls, close_calls, q_seen, quit_seen>>

\* ForNext moving the agent to the start of the first row every time
ForNext_MovesToFirstRow ==
    /\ pc = "for"
    /\ row_index <= Len(positions_df)
    /\ \E raises \in BOOLEAN :
         pc' = IF raises THEN "main_except" ELSE "while"
    /\ current_room' = positions_df[row_index].room_id
    /\ calls' = <<<<"move_to", <<positions_df[1].sp, positions_df[1].sa[1]>>>>>>
    /\ UNCHANGED <<cfg, g, sim_running, episode_info, positions_df, row_index, file,
                   loop_locals, kill_calls, close_calls, q_seen, quit_seen>>

\* lines 541-558: the for loop takes the next row and moves the agent to its start
ForNext ==
    /\ pc = "for"
    /\ row_index <= Len(positions_df)
    /\ \E raises \in BOOLEAN :
         pc' = IF raises THEN "main_except" ELSE "while"
    /\ current_room' = positions_df[row_index].room_id
    /\ calls' = <<<<"move_to", <<positions_df[row_index].sp,
                                 positions_df[row_index].sa[1]>>>>>>
    /\ UNCHANGED <<cfg, g, sim_running, episode_info, positions_df, row_index, file,
                   loop_locals, kill_calls, close_calls, q_seen, quit_seen>>

\* line 561: the while condition is false
WhileExit ==
    /\ pc = "while"
    /\ ~sim_running
    /\ pc' = "for"
    /\ row_index' = row_index + 1
    /\ calls' = <<>>
    /\ UNCHANGED <<cfg, g, sim_running, episode_info, positions_df, current_room, file,
                   loop_locals, kill_calls, close_calls, q_seen, quit_seen>>

\* line 541 with no row left, then lines 790-794
Cleanup ==
    /\ pc = "for"
    /\ row_index > Len(positions_df)
    /\ pc' = "main_finish"
    /\ calls' = <<<<"pygame.quit", "">>>>
    /\ UNCHANGED <<cfg, g, sim_running, episode_info, positions_df, row_index,
                   current_room, file, loop_locals, kill_calls, close_calls,
                   q_seen, quit_seen>>

\* MainExcept with the handler leaving main() instead of falling through to
\* lines 851-856
MainExcept_SkipsFinish ==
    /\ pc = "main_except"
    /\ pc' = "done"
    /\ calls' = <<<<"print_exc", "">>>>
    /\ UNCHANGED <<cfg, g, sim_running, episode_info, positions_df, row_index,
                   current_room, file, loop_locals, kill_calls, close_calls,
                   q_seen, quit_seen>>

\* lines 847-849
MainExcept ==
    /\ pc = "main_except"
    /\ pc' = "main_finish"
    /\ calls' = <<<<"print_exc", "">>>>
    /\ UNCHANGED <<cfg, g, sim_running, episode_info, positions_df, row_index,
                   current_room, file, loop_locals, kill_calls, close_calls,
                   q_seen, quit_seen>>

\* lines 851-856: the calls main() ends with
MainFinishCalls(video_writer) ==
    <<<<"kill", "">>>> \o (IF video_writer THEN <<<<"close", "">>>> ELSE <<>>)

CountCalls(cs, op) == Cardinality({ i \in 1..Len(cs) : cs[i][1] = op })

MainFinish ==
    /\ pc = "main_finish"
    /\ pc' = "done"
    /\ calls' = MainFinishCalls(cfg.video_writer)
    /\ kill_calls' = kill_calls + CountCalls(calls', "kill")
    /\ close_calls' = close_calls + CountCalls(calls', "close")
    /\ UNCHANGED <<cfg, g, sim_running, episode_info, positions_df, row_index,
                   current_room, file, loop_locals, q_seen, quit_seen>>

Control ==
    \/ MainStart
    \/ LoopInit
    \/ ForNext
    \/ WhileExit
    \/ Cleanup
    \/ MainExcept
    \/ MainFinish

\* the program as written
Next == Control \/ Frame
Spec == Init /\ [][Next]_vars

\* the program with the frame's key vector as an input
NextKeys == Control \/ FrameKeys
SpecKeys == Init /\ [][NextKeys]_vars

(* ------------------------------------------------------------------ *)
(* Keyboard sessions                                                   *)
(* ------------------------------------------------------------------ *)
\* The program driven from the keyboard (line 570) for one more frame than
\* above, with every movement key and the chords that tell the order of the
\* key tests apart, one positions table, one sensor set-up, and a simulator
\* that answers every step.
MaxPlayFrames == 4

PlayKeyVectors ==
    IF cfg.replay
    THEN { {}, {K_q}, {K_o}, {K_n}, {K_r}, {K_p}, {K_e}, {K_w}, {K_p, K_e} }
    ELSE { {}, {K_q}, {K_o}, {K_n}, {K_r}, {K_w}, {K_s}, {K_LEFT}, {K_RIGHT},
           {K_a}, {K_d}, {K_UP}, {K_DOWN},
           {K_w, K_s}, {K_s, K_LEFT}, {K_LEFT, K_RIGHT}, {K_RIGHT, K_a},
           {K_a, K_d}, {K_d, K_UP}, {K_UP, K_DOWN}, {K_DOWN, K_e},
           {K_o, K_n}, {K_o, K_r}, {K_n, K_r}, {K_r, K_w}, {K_n, K_w}, {K_o, K_w} }

PlayInputs ==
    { in \in FrameInputs :
        /\ in.resp = DefaultResponse
        /\ in.stepOut = "resp" \/ (in.timedOut /\ ~in.quitEv) }

PlayConfigs ==
    { c \in Configs : c.video_writer /\ c.observations = c.sensors
                      /\ "color" \in c.sensors }

InitPlay ==
    /\ Init
    /\ cfg \in PlayConfigs
    /\ file = [exists |-> TRUE, rows |-> <<RowA>>]

FramePlay ==
    /\ pc = "while"
    /\ sim_running
    /\ \E in \in PlayInputs :
         /\ num_frames < MaxPlayFrames \/ in.timedOut
         /\ \E k \in PlayKeyVectors :
              ApplyFrame(FrameResult(k, g, <<"get_pressed", "">>, in))

NextPlay == Control \/ FramePlay
SpecPlay == InitPlay /\ [][NextPlay]_vars


(* ------------------------------------------------------------------ *)
(* The nine regions of a row's rectangle                               *)
(* ------------------------------------------------------------------ *)
\* what the locals and the bookkeeping of main() and interactive_loop hold
\* while a helper function is exercised on its own
LoopAtRest ==
    /\ sim_running = FALSE
    /\ episode_info = [src |-> "none", displayed |-> 0, goalObservations |-> <<>>]
    /\ file = NoFile
    /\ angle_internal = 0
    /\ actions = <<>>
    /\ bound = {}
    /\ prev_key = ""
    /\ replay_auto = FALSE
    /\ replay_mode = "positions"
    /\ replay_mode_index = 1
    /\ scene_index = 0
    /\ kill_calls = 0
    /\ close_calls = 0
    /\ q_seen = FALSE
    /\ quit_seen = FALSE

\* get_region's result when no region holds the position (None)
NoRegion == 0

\* In this part coordinates are counted in thirds of a unit, so that the
\* division of a whole-unit distance by 3 is exact: corners lie on whole
\* units (multiples of 3), positions on any third.  Rounding of floats is
\* not modelled.
calculate_nine_region_bounds(start_position, end_position) ==
    LET x_distance == end_position[1] - start_position[1]
        x_distance_diff == x_distance \div 3
        z_distance == end_position[3] - start_position[3]
        z_distance_diff == z_distance \div 3
        x0 == start_position[1]
        x1 == IF end_position[1] > start_position[1]
              THEN start_position[1] + x_distance_diff
              ELSE start_position[1] - x_distance_diff
        x2 == IF end_position[1] > start_position[1]
              THEN start_position[1] + 2 * x_distance_diff
              ELSE start_position[1] - 2 * x_distance_diff
        x3 == end_position[1]
        z0 == start_position[3]
        z1 == IF end_position[3] > start_position[3]
              THEN start_position[3] + z_distance_diff
              ELSE start_position[3] - z_distance_diff
        z2 == IF end_position[3] > start_position[3]
              THEN start_position[3] + 2 * z_distance_diff
              ELSE start_position[3] - 2 * z_distance_diff
        z3 == end_position[3]
        R(sx, sz, ex, ez) ==
            [start_x |-> sx, start_y |-> start_position[2], start_z |-> sz,
             end_x |-> ex, end_y |-> start_position[2], end_z |-> ez]
    IN  << <<R(x0, z0, x1, z1), R(x1, z0, x2, z1), R(x2, z0, x3, z1)>>,
           <<R(x0, z1, x1, z2), R(x1, z1, x2, z2), R(x2, z1, x3, z2)>>,
           <<R(x0, z2, x1, z3), R(x1, z2, x2, z3), R(x2, z2, x3, z3)>> >>

get_region(position, bounds) ==
    IF is_within_region(position, bounds[1][1]) THEN 1
    ELSE IF is_within_region(position, bounds[1][2]) THEN 2
    ELSE IF is_within_region(position, bounds[1][3]) THEN 3
    ELSE IF is_within_region(position, bounds[2][1]) THEN 4
    ELSE IF is_within_region(position, bounds[2][2]) THEN 5
    ELSE IF is_within_region(position, bounds[2][3]) THEN 6
    ELSE IF is_within_region(position, bounds[3][1]) THEN 7
    ELSE IF is_within_region(position, bounds[3][2]) THEN 8
    ELSE IF is_within_region(position, bounds[3][3]) THEN 9
    ELSE NoRegion

\* corners on whole units and positions on thirds, in the x-z plane
MaxUnits == 2
Corners == { <<3 * x, 0, 3 * z>> : x \in 0..MaxUnits, z \in 0..MaxUnits }
TestPositions == { <<x, 0, z>> : x \in -1..(3 * MaxUnits + 1), z \in -1..(3 * MaxUnits + 1) }

\* a positions table of one row with the corners as start and end position
InitRegions ==
    /\ LoopAtRest
    /\ pc = "regions"
    /\ cfg = [observations |-> {}, sensors |-> {}]
    /\ g = InitGlobals
    /\ positions_df \in { <<[RowA EXCEPT !.sp = s, !.ep = e]>> : s \in Corners, e \in Corners }
    /\ row_index = 1
    /\ current_room = ""
    /\ position_internal = <<0, 0, 0>>
    /\ has_collided = FALSE
    /\ num_frames = 0
    /\ keys = {}
    /\ calls = <<>>

\* bounds = calculate_nine_region_bounds(...) as at lines 552-555, then
\* get_region(position, bounds) as at line 557
GetRegion ==
    /\ pc = "regions"
    /\ \E p \in TestPositions :
         /\ position_internal' = p
         /\ calls' = <<<<"get_region",
                         get_region(p, calculate_nine_region_bounds(
                                           positions_df[row_index].sp,
                                           positions_df[row_index].ep))>>>>
    /\ UNCHANGED <<pc, cfg, g, sim_running, episode_info, positions_df, row_index,
                   current_room, file, angle_internal, has_collided, actions, bound,
                   prev_key, replay_auto, replay_mode, replay_mode_index, scene_index,
                   num_frames, keys, kill_calls, close_calls, q_seen, quit_seen>>

NextRegions == GetRegion
SpecRegions == InitRegions /\ [][NextRegions]_vars

(* ------------------------------------------------------------------ *)
(* generate_key_press_random called with arbitrary arguments           *)
(* ------------------------------------------------------------------ *)
MaxCalls == 4

\* the arguments a caller can pass; cfg.rotations is what the caller passes
\* as `rotation`.  <<2,0,2>> lies within the bounds, <<5,0,5>> does not, and
\* <<0,0,0>> is the position the test of line 389 exempts
GenArgs ==
    [has_collided : BOOLEAN, rotation : cfg.rotations,
     confine_to_room : {"", "r1"}, current_room : {"r1", "r2"},
     room_bounds : {<<>>, <<RoomBounds(RowA.sp, RowA.ep)>>},
     current_position : {<<0, 0, 0>>, <<2, 0, 2>>, <<5, 0, 5>>}]

InitGen ==
    /\ LoopAtRest
    /\ pc = "gen"
    /\ cfg \in {[rotations |-> {FALSE}], [rotations |-> BOOLEAN]}
    /\ g = InitGlobals
    /\ positions_df = <<>>
    /\ row_index = 1
    /\ current_room = ""
    /\ position_internal = <<0, 0, 0>>
    /\ has_collided = FALSE
    /\ num_frames = 0
    /\ keys = {}
    /\ calls = <<>>

\* one call; num_frames counts the calls, and has_collided, current_room and
\* position_internal hold the arguments of the latest call.  rnd is what
\* get_random_action returns when the call reaches it, and unused otherwise
GenCall ==
    /\ pc = "gen"
    /\ num_frames < MaxCalls
    /\ \E a \in GenArgs :
         LET drew == DrawsRandom(g, a.has_collided, a.confine_to_room,
                                 a.current_room, a.room_bounds, a.current_position)
         IN  \E rnd \in (IF drew THEN get_random_action(a.rotation) ELSE {0}) :
               LET gnew == generate_key_press_random(g, a.has_collided, a.rotation,
                               a.confine_to_room, a.current_room, a.room_bounds,
                               a.current_position, rnd)
               IN  /\ g' = gnew
                   /\ keys' = KeyVectorOf(gnew.next_action)
                   /\ calls' = <<<<"generate_key_press_random", a>>>>
                                \o (IF drew THEN <<<<"get_random_action", a.rotation>>>>
                                    ELSE <<>>)
                   /\ has_collided' = a.has_collided
                   /\ current_room' = a.current_room
                   /\ position_internal' = a.current_position
    /\ num_frames' = num_frames + 1
    /\ UNCHANGED <<pc, cfg, sim_running, episode_info, positions_df, row_index, file,
                   angle_internal, actions, bound, prev_key, replay_auto, replay_mode,
                   replay_mode_index, scene_index, kill_calls, close_calls, q_seen,
                   quit_seen>>

NextGen == GenCall
SpecGen == InitGen /\ [][NextGen]_vars

(* ------------------------------------------------------------------ *)
(* Vocabulary of the properties                                        *)
(* ------------------------------------------------------------------ *)
CallOps(cs) == [i \in 1..Len(cs) |-> cs[i][1]]
HasCall(cs, op) == \E i \in 1..Len(cs) : cs[i][1] = op

\* the latest action was an iteration of the frame loop that got to its key vector
FrameRan(cs) ==
    cs # <<>> /\ cs[1][1] \in {"generate_key_press_random", "get_pressed"}

\* the latest action was an iteration that stayed in the loop
FrameCompleted(cs) == FrameRan(cs) /\ cs[Len(cs)][1] = "tick"

\* no sim.step and no sim.move_to among the calls
NoSimCall(cs) == ~HasCall(cs, "step") /\ ~HasCall(cs, "move_to")

\* the row of the positions table being explored
Row == positions_df[row_index]

(* ------------------------------------------------------------------ *)
(* C1                                                                  *)
(* ------------------------------------------------------------------ *)
\* the latest step, taken while exploring Row, reported the agent in another
\* room or outside the rectangle of Row's start and end positions
AgentLeftRow ==
    /\ pc = "while"
    /\ FrameCompleted(calls)
    /\ \/ current_room # Row.room_id
       \/ ~is_within_region(position_internal, RoomBounds(Row.sp, Row.ep))

\* C1: while a row is explored, whenever the latest step reports the agent in
\* a room other than the row's room_id or outside the row's rectangle, the
\* action generated for the next frame is the reverse of the action generated
\* for the previous frame.
C1_ReversesWhenAgentLeftRow ==
    [][ (AgentLeftRow /\ FrameRan(calls'))
        => g'.next_action = reverse_action(g.next_action) ]_vars

C3_KillAndCloseOnce ==
    /\ pc = "done" =>
         /\ kill_calls = 1
         /\ close_calls = (IF cfg.video_writer THEN 1 ELSE 0)
         /\ CallOps(calls) = (IF cfg.video_writer THEN <<"kill", "close">>
                              ELSE <<"kill">>)
    /\ pc # "done" => kill_calls = 0 /\ close_calls = 0
    /\ pc \in {"main_try", "loop_init", "for", "while", "main_except",
               "main_finish", "done"}

\* main ended after an exception inside the frame loop (rows were left), with
\* a video writer
C3_Witness ==
    /\ pc = "done"
    /\ num_frames > 0
    /\ row_index <= Len(positions_df)
    /\ sim_running
    /\ cfg.video_writer
    /\ kill_calls = 1
    /\ close_calls = 1

(* ------------------------------------------------------------------ *)
(* C4, C5                                                              *)
(* ------------------------------------------------------------------ *)
\* the scene id the X and C branches write: args['scene_ids'][0]
ArgsSceneId == SceneIds[1]

\* the action is an iteration that got past the Q test with key `key` set
\* and key `other` not set
PressFrame(key, other) ==
    /\ pc = "while"
    /\ FrameRan(calls')
    /\ key \in keys'
    /\ other \notin keys'
    /\ K_q \notin keys'

IsFrameOp(c) ==
    \/ c[1] \in {"generate_key_press_random", "get_pressed", "step", "flip", "tick"}
    \/ (c[1] = "display_response" /\ c[2] = TRUE)

PositionOf(cs, op) == CHOOSE i \in 1..Len(cs) : cs[i][1] = op

\* what sim.step returned in the iteration whose calls are cs
ResponseOf(cs) == cs[PositionOf(cs, "response")][2]

\* C7: every iteration that stays in the loop calls sim.step exactly once, in
\* the order: key vector, sim.step, display_response, display.flip, clock.tick
\* (every display_response lies between the step and the flip); and the
\* has_collided given to the key generator is the collision flag of the
\* immediately preceding step (False before the first step): it is the
\* variable has_collided, which holds the flag of the latest response and
\* changes only when a step returns one.
C7_FrameOrder ==
    [][ /\ (FrameRan(calls') /\ pc' = "while") =>
             /\ CountCalls(calls', "step") = 1
             /\ CallOps(SelectSeq(calls', IsFrameOp))
                  = <<"generate_key_press_random", "step", "display_response",
                      "flip", "tick">>
             /\ \A i \in 1..Len(calls') :
                  calls'[i][1] = "display_response" =>
                    PositionOf(calls', "step") < i /\ i < PositionOf(calls', "flip")
        /\ FrameRan(calls') =>
             /\ calls'[1][2] = has_collided
             /\ FrameCompleted(calls) => calls'[1][2] = ResponseOf(calls).collision
             /\ "angle_internal" \notin bound => calls'[1][2] = FALSE
        /\ IF HasCall(calls', "response")
           THEN has_collided' = ResponseOf(calls').collision
           ELSE has_collided' = has_collided ]_vars

\* an iteration stayed in the loop and its key generator was told of the
\* collision the step before it reported
C7_Witness ==
    /\ pc = "while"
    /\ FrameCompleted(calls)
    /\ calls[1] = <<"generate_key_press_random", TRUE>>
    /\ num_frames >= 2

(* ------------------------------------------------------------------ *)
(* C8                                                                  *)
(* ------------------------------------------------------------------ *)
\* C8: after a window QUIT event has set sim.running to False (the first
\* thing an iteration does), interactive_loop makes no further sim.step and
\* no further sim.move_to call.
C8_NoSimCallAfterQuitEvent ==
    [][ quit_seen' => NoSimCall(calls') ]_vars


(* ------------------------------------------------------------------ *)
(* C9                                                                  *)
(* ------------------------------------------------------------------ *)
\* the display_response call that the call at position i belongs to
DisplayOf(cs, i) ==
    CHOOSE j \in 1..i :
      /\ cs[j][1] = "display_response"
      /\ \A m \in (j + 1)..i : cs[m][1] # "display_response"

\* C9: VIDEO_WRITER.add_frame is called exactly once per sim.step whose
\* response has a 'color' sensor that is among the displayed camera outputs
\* (and a writer exists), never for another sensor, and never while a goal
\* observation is displayed by display_episode_info.
C9_VideoFramesOnlyFromStepColor ==
    /\ \A i \in 1..Len(calls) :
         calls[i][1] = "add_frame" =>
           /\ calls[i][2] = "color"
           /\ HasCall(SubSeq(calls, 1, i), "display_response")
           /\ calls[DisplayOf(calls, i)][2] = TRUE
           /\ PositionOf(calls, "response") < i
    /\ CountCalls(calls, "add_frame") =
         (IF /\ HasCall(calls, "response")
             /\ "color" \in cfg.sensors
             /\ "color" \in CameraOutputsCurr
             /\ cfg.video_writer
          THEN 1 ELSE 0)

\* a frame that displayed a goal observation with a color image and wrote the
\* step's color image to the video
C9_Witness ==
    /\ HasCall(calls, "add_frame")
    /\ cfg.show_goals
    /\ \E i \in 1..Len(calls) :
         /\ calls[i] = <<"display_response", FALSE>>
         /\ i < Len(calls)
         /\ calls[i + 1] = <<"blit", "color">>


(* ------------------------------------------------------------------ *)
(* C10                                                                 *)
(* ------------------------------------------------------------------ *)
\* the action is an iteration in replay mode that reached the replay branch
ReplayFrame ==
    /\ pc = "while"
    /\ cfg.replay
    /\ FrameRan(calls')
    /\ keys' \cap {K_q, K_o, K_n, K_r, K_x, K_c} = {}

IsLoadOp(c) == c[1] \in {"get_next_state", "set_scene", "move_to", "start"}

\* the action is an iteration in which N loaded a scene or a state
SceneLoad == pc = "while" /\ FrameRan(calls') /\ HasCall(calls', "set_scene")

\* C11: scene loads triggered by N are cyclic.  Without a state set a load
\* advances scene_index by one modulo the number of scene ids and loads
\* args.scene_ids[scene_index] (so the k-th load uses scene_ids[k mod n], from
\* scene_index 0), nothing else changes scene_index, and scene_index stays in
\* 0..n-1.  With a state set, get_next_state is called, once more if it
\* returned nothing, and the load uses the state the last call returned.
\* Every load calls sim.set_scene and then sim.start, with sim.move_to in
\* between for a state, and replaces sim.episode_info.
C11_SceneLoadsCyclic ==
    [][ /\ scene_index' \in 0..(Len(SceneIds) - 1)
        /\ ~(SceneLoad /\ ~cfg.has_state_set) => scene_index' = scene_index
        /\ (SceneLoad /\ ~cfg.has_state_set) =>
             /\ scene_index' = (scene_index + 1) % Len(SceneIds)
             /\ SelectSeq(calls', IsLoadOp)
                  = <<<<"set_scene", SceneIds[scene_index' + 1]>>, <<"start", "">>>>
        /\ (SceneLoad /\ cfg.has_state_set) =>
             LET loads == SelectSeq(calls', IsLoadOp)
                 n     == CountCalls(calls', "get_next_state")
                 state == loads[n][2][1]
             IN  /\ n \in {1, 2}
                 /\ n = 2 <=> loads[1][2] = <<>>
                 /\ \A i \in 1..n : loads[i][1] = "get_next_state"
                 /\ loads[n][2] # <<>>
                 /\ SubSeq(loads, n + 1, Len(loads))
                      = <<<<"set_scene", state.scene_id>>,
                          <<"move_to", <<state.position, state.angle>>>>,
                          <<"start", "">>>>
        /\ SceneLoad => episode_info'.src = "scene" ]_vars

\* the second load without a state set has wrapped around to the first scene
C11_Witness ==
    /\ ~cfg.has_state_set
    /\ FrameCompleted(calls)
    /\ HasCall(calls, "set_scene")
    /\ calls[PositionOf(calls, "set_scene")][2] = SceneIds[1]
    /\ scene_index = 0

(* ------------------------------------------------------------------ *)
(* C12                                                                 *)
(* ------------------------------------------------------------------ *)
\* region_bounds lies inside the rectangle of start_position and end_position
RegionInside(region_bounds, start_position, end_position) ==
    /\ Min(region_bounds.start_x, region_bounds.end_x)
         >= Min(start_position[1], end_position[1])
    /\ Max(region_bounds.start_x, region_bounds.end_x)
         <= Max(start_position[1], end_position[1])
    /\ Min(region_bounds.start_z, region_bounds.end_z)
         >= Min(start_position[3], end_position[3])
    /\ Max(region_bounds.start_z, region_bounds.end_z)
         <= Max(start_position[3], end_position[3])

\* v lies in the i-th third (i = 0, 1, 2) of the way from a to b
InThird(v, a, b, i) ==
    LET lo == a + i * ((b - a) \div 3)
        hi == a + (i + 1) * ((b - a) \div 3)
    IN  Min(lo, hi) <= v /\ v <= Max(lo, hi)

\* C12: for either orientation of the corners, each of the nine regions lies
\* inside the rectangle of start_position and end_position; get_region
\* returns a number in 1..9 for every position inside the rectangle and no
\* region exactly for the positions outside it; and region 3*row + col + 1 is
\* returned only for positions in z third `row` and x third `col`.
C12_NineRegionsPartitionRectangle ==
    LET sp == Row.sp
        ep == Row.ep
        bounds == calculate_nine_region_bounds(sp, ep)
    IN  (pc = "regions" /\ calls # <<>>) =>
          LET n == calls[1][2]
              inside == is_within_region(position_internal, RoomBounds(sp, ep))
          IN  /\ \A r \in 1..3, c \in 1..3 : RegionInside(bounds[r][c], sp, ep)
              /\ inside => n \in 1..9
              /\ n = NoRegion <=> ~inside
              /\ n \in 1..9 =>
                    /\ InThird(position_internal[3], sp[3], ep[3], (n - 1) \div 3)
                    /\ InThird(position_internal[1], sp[1], ep[1], (n - 1) % 3)

(* ------------------------------------------------------------------ *)
(* C13, C14, C15, C19                                                  *)
(* ------------------------------------------------------------------ *)
\* cs is the log of a call of generate_key_press_random with arbitrary
\* arguments
IsGenCall(cs) ==
    cs # <<>> /\ cs[1][1] = "generate_key_press_random" /\ pc = "gen"

\* that call found the agent outside
FoundOutside(cs) ==
    Outside(cs[1][2].confine_to_room, cs[1][2].current_room, cs[1][2].room_bounds,
            cs[1][2].current_position)

\* C13: in every maximal run of consecutive calls that find the agent
\* outside, the first call emits reverse_action of the action the preceding
\* call emitted, and every later call of the run emits the same action as the
\* call before it.
C13_ReversesOncePerExit ==
    [][ (IsGenCall(calls') /\ FoundOutside(calls') /\ IsGenCall(calls)) =>
          /\ keys' = KeyVectorOf(g'.next_action)
          /\ IF FoundOutside(calls)
             THEN g'.next_action = g.next_action /\ keys' = keys
             ELSE g'.next_action = reverse_action(g.next_action) ]_vars

\* the agent went forward, was found outside and turned back, and was found
\* outside again and kept going back
C13_Witness ==
    /\ IsGenCall(calls)
    /\ FoundOutside(calls)
    /\ num_frames >= 3
    /\ g.previous_action = 115
    /\ g.next_action = 115
    /\ keys = {115}

\* C14: a call that finds the agent outside never draws a random action,
\* even when has_collided is true; every call that finds it inside sets
\* reverse_action_taken to False; and a call that finds it inside with
\* has_collided true emits an action drawn from forward, backward, left,
\* right when rotation is False, and from those and the two rotations when
\* rotation is True.
C14_ConfinementBeforeCollision ==
    [][ IsGenCall(calls') =>
          /\ FoundOutside(calls') =>
                /\ ~HasCall(calls', "get_random_action")
                /\ g'.next_action \in {g.next_action, reverse_action(g.next_action)}
          /\ ~FoundOutside(calls') => ~g'.reverse_action_taken
          /\ (~FoundOutside(calls') /\ calls'[1][2].has_collided) =>
                /\ HasCall(calls', "get_random_action")
                /\ g'.next_action \in (IF calls'[1][2].rotation
                                        THEN {119, 115, 97, 100, 276, 275}
                                        ELSE {119, 115, 97, 100})
                /\ keys' = {g'.next_action} ]_vars

\* a call found the agent outside while has_collided was true, and went on
\* reversing
C14_Witness ==
    /\ IsGenCall(calls)
    /\ FoundOutside(calls)
    /\ calls[1][2].has_collided
    /\ g.reverse_action_taken
    /\ g.next_action = 115

\* that call found the agent inside and no collision was reported
InsideNoCollision(cs) ==
    IsGenCall(cs) /\ ~FoundOutside(cs) /\ ~cs[1][2].has_collided

\* that call, which left the globals gg, repeated a rotation
ContinuedRotation(cs, gg) ==
    /\ InsideNoCollision(cs)
    /\ ~HasCall(cs, "get_random_action")
    /\ gg.next_action \in {275, 276}

\* C15: a call that finds the agent inside with no collision emits forward
\* (119) if it is the very first call; otherwise it repeats the previous
\* action, except that after a rotation with rotation_counter even the
\* counter is reset to 0 and a new random action is drawn.  No two
\* consecutive such calls both continue a rotation.  When every call passes
\* rotation=False, no rotation is ever emitted and rotation_counter stays 0.
C15_InsideWithoutCollision ==
    [][ IsGenCall(calls') =>
          /\ InsideNoCollision(calls') =>
                IF num_frames = 0
                THEN g'.next_action = 119 /\ ~HasCall(calls', "get_random_action")
                ELSE IF g.next_action \in {275, 276} /\ g.rotation_counter % 2 = 0
                THEN /\ HasCall(calls', "get_random_action")
                     /\ g'.next_action \in (IF calls'[1][2].rotation
                                             THEN {119, 115, 97, 100, 276, 275}
                                             ELSE {119, 115, 97, 100})
                     /\ g'.rotation_counter
                          = (IF g'.next_action \in {275, 276} THEN 1 ELSE 0)
                ELSE /\ g'.next_action = g.next_action
                     /\ ~HasCall(calls', "get_random_action")
          /\ ~(ContinuedRotation(calls, g) /\ ContinuedRotation(calls', g'))
          /\ cfg.rotations = {FALSE} =>
                g'.next_action \notin {275, 276} /\ g'.rotation_counter = 0 ]_vars

\* a rotation was drawn, continued once, and then a new action was drawn
C15_Witness ==
    /\ InsideNoCollision(calls)
    /\ HasCall(calls, "get_random_action")
    /\ g.previous_action \in {275, 276}
    /\ g.rotation_counter = 0
    /\ num_frames >= 3

\* C19: every key vector generate_key_press_random returns has exactly one
\* entry set, and that entry is one of the six movement keys; the Q, R, N, O,
\* X, C, P and E entries are never set.
C19_OneMovementKey ==
    (pc = "gen" /\ num_frames > 0) =>
      /\ keys \subseteq 0..(NumKeys - 1)
      /\ Cardinality(keys) = 1
      /\ keys \subseteq {119, 115, 97, 100, 276, 275}
      /\ keys \cap {K_q, K_r, K_n, K_o, K_x, K_c, K_p, K_e} = {}

(* ------------------------------------------------------------------ *)
(* C16                                                                 *)
(* ------------------------------------------------------------------ *)
NotReset(name) == name # "reset"

\* the argument of the (first) call of op among cs
ArgOf(cs, op) == cs[PositionOf(cs, op)][2]

IsTraceOp(c) == c[1] \in {"next_trace", "configure", "start", "move_to"}

\* C16: a replay frame that consumes a record passes, in 'actions' mode, the
\* record's action names in order without 'reset' to sim.step and does not
\* call sim.move_to; in 'positions' mode it calls sim.move_to once with the
\* record's position and rotation and passes no action.  When the trace has
\* no record left, the next trace is taken, sim.configure and then sim.start
\* are called, and no action is passed.  A frame with auto replay off and no
\* key pressed consumes no record.
C16_ReplayByMode ==
    [][ ReplayFrame =>
          LET consumed == HasCall(calls', "next_action_record")
              rec      == ArgOf(calls', "next_action_record")
              passed   == ArgOf(calls', "step")
          IN  /\ CountCalls(calls', "step") = 1
              /\ CountCalls(calls', "next_action_record") <= 1
              /\ (consumed /\ rec # <<>> /\ replay_mode' = "actions") =>
                    /\ passed = SelectSeq(rec[1].actions, NotReset)
                    /\ ~HasCall(calls', "move_to")
              /\ (consumed /\ rec # <<>> /\ replay_mode' = "positions") =>
                    /\ SelectSeq(calls', IsTraceOp)
                         = <<<<"move_to", <<rec[1].pos, rec[1].rotation>>>>>>
                    /\ passed = <<>>
              /\ (consumed /\ rec = <<>>) =>
                    /\ CallOps(SelectSeq(calls', IsTraceOp))
                         = <<"next_trace", "configure", "start">>
                    /\ passed = <<>>
                    /\ episode_info'.src = "replay"
              /\ (~replay_auto' /\ keys' = {}) => ~consumed
              /\ PositionOf(calls', "step") > Len(SelectSeq(calls', IsTraceOp)) ]_vars

\* in 'actions' mode a record "reset+turnLeft" was consumed and turnLeft was
\* passed to sim.step
C16_Witness ==
    /\ cfg.replay
    /\ FrameCompleted(calls)
    /\ replay_mode = "actions"
    /\ HasCall(calls, "next_action_record")
    /\ ArgOf(calls, "next_action_record") # <<>>
    /\ ArgOf(calls, "next_action_record")[1].actions = <<"reset", "turnLeft">>
    /\ ArgOf(calls, "step") = <<"turnLeft">>

(* ------------------------------------------------------------------ *)
(* C17                                                                 *)
(* ------------------------------------------------------------------ *)
\* the movement keys in the order of the claim, with their action names
KeyOrder ==
    << <<K_w, "forwards">>, <<K_s, "backwards">>, <<K_LEFT, "turnLeft">>,
       <<K_RIGHT, "turnRight">>, <<K_a, "strafeLeft">>, <<K_d, "strafeRight">>,
       <<K_UP, "lookUp">>, <<K_DOWN, "lookDown">> >>

\* the name of the first key of KeyOrder that is set in k, 'idle' if none is
FirstSetKey(k) ==
    IF \E i \in 1..Len(KeyOrder) : KeyOrder[i][1] \in k
    THEN LET first == CHOOSE i \in 1..Len(KeyOrder) :
                        /\ KeyOrder[i][1] \in k
                        /\ \A j \in 1..(i - 1) : KeyOrder[j][1] \notin k
         IN  KeyOrder[first][2]
    ELSE "idle"

\* the action is an iteration that got past the Q test
KeyFrame == pc = "while" /\ FrameRan(calls') /\ K_q \notin keys'

IsBranchOp(c) ==
    c[1] \in {"get_next_state", "set_scene", "move_to", "start", "reset",
              "print_observation"}

\* C17: outside replay mode, a frame with none of O, N, R set passes exactly
\* one action to sim.step, named after the first set key in the order W, S,
\* LEFT, RIGHT, A, D, UP, DOWN, and 'idle' when none is set.  O takes
\* priority over N and N over R, and at most one of their branches runs: the
\* O branch alone leads to the observation being printed, the N branch alone
\* toggles prev_key on 'n' and loads, the R branch alone toggles prev_key on
\* 'r' and resets.
C17_OneActionByKeyOrder ==
    [][ KeyFrame =>
          /\ (~cfg.replay /\ keys' \cap {K_o, K_n, K_r} = {}) =>
                /\ CountCalls(calls', "step") = 1
                /\ ArgOf(calls', "step") = <<FirstSetKey(keys')>>
                /\ prev_key' = prev_key
                /\ SelectSeq(calls', IsBranchOp) = <<>>
          /\ K_o \in keys' =>
                /\ prev_key' = prev_key
                /\ \A i \in 1..Len(calls') :
                     IsBranchOp(calls'[i]) => calls'[i][1] = "print_observation"
                /\ HasCall(calls', "response") => HasCall(calls', "print_observation")
          /\ (K_n \in keys' /\ K_o \notin keys') =>
                /\ prev_key' = Toggle(prev_key, "n")
                /\ ~HasCall(calls', "reset")
                /\ ~HasCall(calls', "print_observation")
                /\ prev_key' = "n" <=> HasCall(calls', "set_scene")
          /\ (K_r \in keys' /\ K_o \notin keys' /\ K_n \notin keys') =>
                /\ prev_key' = Toggle(prev_key, "r")
                /\ ~HasCall(calls', "set_scene")
                /\ ~HasCall(calls', "print_observation")
                /\ prev_key' = "r" <=> HasCall(calls', "reset") ]_vars

\* S and LEFT were held together and 'backwards' was passed to sim.step
C17_Witness ==
    /\ ~cfg.replay
    /\ FrameCompleted(calls)
    /\ keys = {K_s, K_LEFT}
    /\ ArgOf(calls, "step") = <<"backwards">>

(* ------------------------------------------------------------------ *)
(* C18                                                                 *)
(* ------------------------------------------------------------------ *)
\* among the calls cs is a sim.move_to to the start position and angle of a
\* row of the positions table
MovesToRowStart(cs) ==
    \E i \in 1..Len(cs), r \in 1..Len(positions_df) :
       cs[i] = <<"move_to", <<positions_df[r].sp, positions_df[r].sa[1]>>>>

\* C18: the rows are explored in table order.  The for loop starts at the
\* first row and only ever advances by one row, when the frame loop of the
\* current row is left (by the time limit or otherwise); on arriving at a row
\* it calls sim.move_to once with that row's start position and angle before
\* the row's frame loop is entered, so after every sim.step of the previous
\* row and before every sim.step of this row; sim.step is called only inside
\* the frame loop of the current row; and pygame.quit runs only when no row
\* is left.
C18_RowsInTableOrder ==
    [][ /\ pc \in {"for", "while"} => positions_df' = positions_df
        /\ row_index' # row_index =>
              \/ pc = "loop_init" /\ row_index' = 1
              \/ pc = "while" /\ pc' = "for" /\ row_index' = row_index + 1
        /\ (pc = "while" /\ pc' = "for") => row_index' = row_index + 1
        /\ pc' = "for" => pc \in {"loop_init", "while"}
        /\ MovesToRowStart(calls') =>
              /\ pc = "for"
              /\ row_index <= Len(positions_df)
              /\ calls' = <<<<"move_to", <<Row.sp, Row.sa[1]>>>>>>
              /\ pc' \in {"while", "main_except"}
              /\ current_room' = Row.room_id
        /\ (pc' = "while" /\ pc # "while") =>
              pc = "for" /\ MovesToRowStart(calls')
        /\ (pc = "for" /\ row_index <= Len(positions_df)) => MovesToRowStart(calls')
        /\ HasCall(calls', "step") => pc = "while" /\ row_index <= Len(positions_df)
        /\ HasCall(calls', "pygame.quit") =>
              pc = "for" /\ row_index > Len(positions_df) ]_vars

\* after frames in the first row, the agent has been moved to the start of
\* the second row
C18_Witness ==
    /\ pc = "while"
    /\ row_index = 2
    /\ num_frames >= 1
    /\ calls = <<<<"move_to", <<RowB.sp, RowB.sa[1]>>>>>>

====
